---- MODULE Spec2Model ----
(***************************************************************************)
(* Model of src/src/economy.c: the banking service of LumenClay.           *)
(*                                                                         *)
(* Representation.                                                         *)
(*  - A C double is a fixed-point number: the integer v stands for the     *)
(*    value v / Scale (Scale = 10, so 1.0 is 10 and 0.5 is 5).  Sums and   *)
(*    differences are exact; a product is rounded down onto the grid.      *)
(*    Only finite values are modelled (no NaN, no infinities).             *)
(*  - An Account* is an account id; mem maps ids to Account records, so a  *)
(*    transfer whose two pointers alias updates one record twice.          *)
(*  - items[0..item_count-1] is the sequence items (item_count is its      *)
(*    length); history[0..history_count-1] is the sequence history.        *)
(*  - A C string is a sequence of character codes; NullName is the null    *)
(*    pointer.  snprintf into a char[MAX_ITEM_NAME] keeps the first        *)
(*    MAX_ITEM_NAME - 1 characters.                                        *)
(*  - The error buffer is modelled by the kind of message written to it.   *)
(*  - TransactionEntry.timestamp (the wall clock) and Account.owner are    *)
(*    not modelled: no handler reads them.                                 *)
(***************************************************************************)
EXTENDS Integers, Sequences, FiniteSets, TLC

VARIABLES svc, mem, last, budget, setup

vars == <<svc, mem, last, budget, setup>>

Scale == 10

MAX_ITEMS == 32
MAX_ITEM_NAME == 48
MAX_TRANSACTION_HISTORY == 64

BANK_MIN_TRANSACTION == 1 * Scale
BANK_MAX_TRANSACTION == 10000 * Scale
BANK_MAX_DAILY_TOTAL == 25000 * Scale
BANK_MAX_ITEM_QUANTITY == 999

SIZE_MAX == -1

NullName == <<-1>>

Min(a, b) == IF a < b THEN a ELSE b

(* double * double, rounded onto the grid *)
Mul(x, y) == (x * y) \div Scale

(* snprintf(dst, sizeof dst, "%s", name) with dst of MAX_ITEM_NAME bytes *)
StoredName(name) == SubSeq(name, 1, Min(Len(name), MAX_ITEM_NAME - 1))

(* ---------------------------------------------------------------------- *)
(* Account helpers                                                         *)
(* ---------------------------------------------------------------------- *)

TransactionEntry(description, amount, resulting_balance) ==
    [description |-> description, amount |-> amount,
     resulting_balance |-> resulting_balance]

(* a full history overwrites its newest entry instead of shifting *)
account_add_history_overwrite(account, description, amount) ==
    LET entry == TransactionEntry(description, amount, account.balance)
    IN  IF Len(account.history) < MAX_TRANSACTION_HISTORY
        THEN [account EXCEPT !.history = Append(@, entry)]
        ELSE [account EXCEPT !.history[MAX_TRANSACTION_HISTORY] = entry]

account_add_history(account, description, amount) ==
    LET entry == TransactionEntry(description, amount, account.balance)
    IN  IF Len(account.history) < MAX_TRANSACTION_HISTORY
        THEN [account EXCEPT !.history = Append(@, entry)]
        ELSE [account EXCEPT !.history =
                 Append(SubSeq(@, 2, MAX_TRANSACTION_HISTORY), entry)]

account_reset(initial_balance) ==
    [balance            |-> IF initial_balance < 0 THEN 0 ELSE initial_balance,
     investment_balance |-> 0,
     daily_total        |-> 0,
     items              |-> <<>>,
     history            |-> <<>>]

(* ---------------------------------------------------------------------- *)
(* Validation gates                                                        *)
(* ---------------------------------------------------------------------- *)

(* "" when the amount passes, else the kind of the message written *)
enforce_amount(amount) ==
    IF amount < BANK_MIN_TRANSACTION THEN "below_minimum"
    ELSE IF amount > BANK_MAX_TRANSACTION THEN "above_maximum"
    ELSE ""

(* the configured limit is ignored *)
DailyLimit_default_only(service) == BANK_MAX_DAILY_TOTAL

DailyLimit(service) ==
    IF service.daily_limit > 0 THEN service.daily_limit ELSE BANK_MAX_DAILY_TOTAL

(* >= in place of > *)
enforce_daily_strict(service, account, amount) ==
    IF account.daily_total + amount >= DailyLimit(service) THEN "daily_limit" ELSE ""

(* the amount alone is compared with the limit *)
enforce_daily_amount_only(service, account, amount) ==
    IF amount > DailyLimit(service) THEN "daily_limit" ELSE ""

enforce_daily(service, account, amount) ==
    LET limit == DailyLimit(service)
        projected == account.daily_total + amount
    IN  IF projected > limit THEN "daily_limit" ELSE ""

(* apply_fee without the minimum check on the post-fee amount *)
apply_fee_unchecked(amount, fee) ==
    IF fee <= 0 THEN [ok |-> TRUE, amount |-> amount]
    ELSE [ok |-> TRUE, amount |-> amount - fee]

(* <= in place of <: a post-fee amount of exactly the minimum is rejected *)
apply_fee_strict(amount, fee) ==
    IF fee <= 0 THEN [ok |-> TRUE, amount |-> amount]
    ELSE IF amount - fee <= BANK_MIN_TRANSACTION
         THEN [ok |-> FALSE, amount |-> amount]
         ELSE [ok |-> TRUE, amount |-> amount - fee]

(* ok: the return value; amount: *amount after the call *)
apply_fee(amount, fee) ==
    IF fee <= 0 THEN [ok |-> TRUE, amount |-> amount]
    ELSE LET after_fee == amount - fee
         IN  IF after_fee < BANK_MIN_TRANSACTION
             THEN [ok |-> FALSE, amount |-> amount]
             ELSE [ok |-> TRUE, amount |-> after_fee]

Fail(m, err) == [ok |-> FALSE, err |-> err, mem |-> m]
Done(m) == [ok |-> TRUE, err |-> "", mem |-> m]

(* ---------------------------------------------------------------------- *)
(* Currency operations: m is the memory, p the Account pointer             *)
(* ---------------------------------------------------------------------- *)

(* the history entry is written before the balance is credited *)
service_deposit_history_first(service, m, p, amount) ==
    LET requested == amount
        range == enforce_amount(amount)
        daily == enforce_daily(service, m[p], requested)
        fee   == apply_fee(amount, service.deposit_fee)
    IN  IF range # "" THEN Fail(m, range)
        ELSE IF daily # "" THEN Fail(m, daily)
        ELSE IF ~fee.ok THEN Fail(m, "deposit_fee")
        ELSE LET a1 == account_add_history(m[p], "Deposit", fee.amount)
                 a2 == [a1 EXCEPT !.balance = @ + fee.amount]
                 a3 == [a2 EXCEPT !.daily_total = @ + requested]
             IN  Done([m EXCEPT ![p] = a3])

service_deposit(service, m, p, amount) ==
    LET requested == amount
        range == enforce_amount(amount)
        daily == enforce_daily(service, m[p], requested)
        fee   == apply_fee(amount, service.deposit_fee)
    IN  IF range # "" THEN Fail(m, range)
        ELSE IF daily # "" THEN Fail(m, daily)
        ELSE IF ~fee.ok THEN Fail(m, "deposit_fee")
        ELSE LET a1 == [m[p] EXCEPT !.balance = @ + fee.amount]
                 a2 == [a1 EXCEPT !.daily_total = @ + requested]
                 a3 == account_add_history(a2, "Deposit", fee.amount)
             IN  Done([m EXCEPT ![p] = a3])

(* sufficiency is tested against the requested amount, not the post-fee one *)
service_withdraw_full_amount(service, m, p, amount) ==
    LET requested == amount
        range == enforce_amount(amount)
        daily == enforce_daily(service, m[p], requested)
        fee   == apply_fee(amount, service.withdrawal_fee)
    IN  IF range # "" THEN Fail(m, range)
        ELSE IF daily # "" THEN Fail(m, daily)
        ELSE IF ~fee.ok THEN Fail(m, "withdrawal_fee")
        ELSE IF m[p].balance < requested THEN Fail(m, "insufficient_balance")
        ELSE LET a1 == [m[p] EXCEPT !.balance = @ - fee.amount]
                 a2 == [a1 EXCEPT !.daily_total = @ + requested]
                 a3 == account_add_history(a2, "Withdrawal", -fee.amount)
             IN  Done([m EXCEPT ![p] = a3])

service_withdraw(service, m, p, amount) ==
    LET requested == amount
        range == enforce_amount(amount)
        daily == enforce_daily(service, m[p], requested)
        fee   == apply_fee(amount, service.withdrawal_fee)
    IN  IF range # "" THEN Fail(m, range)
        ELSE IF daily # "" THEN Fail(m, daily)
        ELSE IF ~fee.ok THEN Fail(m, "withdrawal_fee")
        ELSE IF m[p].balance < fee.amount THEN Fail(m, "insufficient_balance")
        ELSE LET a1 == [m[p] EXCEPT !.balance = @ - fee.amount]
                 a2 == [a1 EXCEPT !.daily_total = @ + requested]
                 a3 == account_add_history(a2, "Withdrawal", -fee.amount)
             IN  Done([m EXCEPT ![p] = a3])

(* the fee is subtracted whatever its sign *)
TransferCredited_always(amount, fee) == amount - fee

TransferCredited(amount, fee) == IF fee > 0 THEN amount - fee ELSE amount

(* the post-fee minimum is tested before the sender's balance *)
service_transfer_fee_first(service, m, from, to, amount) ==
    LET range == enforce_amount(amount)
        daily == enforce_daily(service, m[from], amount)
        fee   == service.transfer_fee
        credited == TransferCredited(amount, fee)
    IN  IF range # "" THEN Fail(m, range)
        ELSE IF daily # "" THEN Fail(m, daily)
        ELSE IF fee > 0 /\ amount - fee < BANK_MIN_TRANSACTION
             THEN Fail(m, "transfer_too_small")
        ELSE IF m[from].balance < amount THEN Fail(m, "transfer_insufficient")
        ELSE LET m1 == [m  EXCEPT ![from].balance = @ - amount]
                 m2 == [m1 EXCEPT ![to].balance = @ + credited]
                 m3 == [m2 EXCEPT ![from].daily_total = @ + amount]
                 m4 == [m3 EXCEPT ![from] =
                           account_add_history(@, "Transfer Sent", -amount)]
                 m5 == [m4 EXCEPT ![to] =
                           account_add_history(@, "Transfer Received", credited)]
             IN  Done(m5)

(* the receiver's daily total is checked and charged as well *)
service_transfer_receiver_capped(service, m, from, to, amount) ==
    LET range == enforce_amount(amount)
        daily == enforce_daily(service, m[from], amount)
        daily_to == enforce_daily(service, m[to], amount)
        fee   == service.transfer_fee
        credited == TransferCredited(amount, fee)
    IN  IF range # "" THEN Fail(m, range)
        ELSE IF daily # "" THEN Fail(m, daily)
        ELSE IF daily_to # "" THEN Fail(m, daily_to)
        ELSE IF m[from].balance < amount THEN Fail(m, "transfer_insufficient")
        ELSE IF fee > 0 /\ amount - fee < BANK_MIN_TRANSACTION
             THEN Fail(m, "transfer_too_small")
        ELSE LET m1 == [m  EXCEPT ![from].balance = @ - amount]
                 m2 == [m1 EXCEPT ![to].balance = @ + credited]
                 m3 == [m2 EXCEPT ![from].daily_total = @ + amount]
                 m4 == [m3 EXCEPT ![from] =
                           account_add_history(@, "Transfer Sent", -amount)]
                 m5 == [m4 EXCEPT ![to] =
                           account_add_history(@, "Transfer Received", credited)]
             IN  Done(m5)

(* the credit is computed from the balance read before the debit *)
service_transfer_stale_credit(service, m, from, to, amount) ==
    LET range == enforce_amount(amount)
        daily == enforce_daily(service, m[from], amount)
        fee   == service.transfer_fee
        credited == TransferCredited(amount, fee)
    IN  IF range # "" THEN Fail(m, range)
        ELSE IF daily # "" THEN Fail(m, daily)
        ELSE IF m[from].balance < amount THEN Fail(m, "transfer_insufficient")
        ELSE IF fee > 0 /\ amount - fee < BANK_MIN_TRANSACTION
             THEN Fail(m, "transfer_too_small")
        ELSE LET m1 == [m  EXCEPT ![from].balance = @ - amount]
                 m2 == [m1 EXCEPT ![to].balance = m[to].balance + credited]
                 m3 == [m2 EXCEPT ![from].daily_total = @ + amount]
                 m4 == [m3 EXCEPT ![from] =
                           account_add_history(@, "Transfer Sent", -amount)]
                 m5 == [m4 EXCEPT ![to] =
                           account_add_history(@, "Transfer Received", credited)]
             IN  Done(m5)

service_transfer(service, m, from, to, amount) ==
    LET range == enforce_amount(amount)
        daily == enforce_daily(service, m[from], amount)
        fee   == service.transfer_fee
        credited == TransferCredited(amount, fee)
    IN  IF range # "" THEN Fail(m, range)
        ELSE IF daily # "" THEN Fail(m, daily)
        ELSE IF m[from].balance < amount THEN Fail(m, "transfer_insufficient")
        ELSE IF fee > 0 /\ amount - fee < BANK_MIN_TRANSACTION
             THEN Fail(m, "transfer_too_small")
        ELSE LET m1 == [m  EXCEPT ![from].balance = @ - amount]
                 m2 == [m1 EXCEPT ![to].balance = @ + credited]
                 m3 == [m2 EXCEPT ![from].daily_total = @ + amount]
                 m4 == [m3 EXCEPT ![from] =
                           account_add_history(@, "Transfer Sent", -amount)]
                 m5 == [m4 EXCEPT ![to] =
                           account_add_history(@, "Transfer Received", credited)]
             IN  Done(m5)

(* the balance check comes after the debit, with no rollback *)
service_invest_debit_first(service, m, p, amount) ==
    IF amount <= 0 THEN Fail(m, "invest_not_positive")
    ELSE LET a1 == [m[p] EXCEPT !.balance = @ - amount]
         IN  IF m[p].balance < amount
             THEN Fail([m EXCEPT ![p] = a1], "invest_insufficient")
             ELSE LET a2 == [a1 EXCEPT !.investment_balance = @ + amount]
                      a3 == account_add_history(a2, "Investment Deposit", -amount)
                  IN  Done([m EXCEPT ![p] = a3])

(* invest passes the range and daily-limit gates of a deposit *)
service_invest_gated(service, m, p, amount) ==
    LET range == enforce_amount(amount)
        daily == enforce_daily(service, m[p], amount)
    IN  IF amount <= 0 THEN Fail(m, "invest_not_positive")
        ELSE IF range # "" THEN Fail(m, range)
        ELSE IF daily # "" THEN Fail(m, daily)
        ELSE IF m[p].balance < amount THEN Fail(m, "invest_insufficient")
        ELSE LET a1 == [m[p] EXCEPT !.balance = @ - amount]
                 a2 == [a1 EXCEPT !.investment_balance = @ + amount]
                 a3 == account_add_history(a2, "Investment Deposit", -amount)
             IN  Done([m EXCEPT ![p] = a3])

service_invest(service, m, p, amount) ==
    IF amount <= 0 THEN Fail(m, "invest_not_positive")
    ELSE IF m[p].balance < amount THEN Fail(m, "invest_insufficient")
    ELSE LET a1 == [m[p] EXCEPT !.balance = @ - amount]
             a2 == [a1 EXCEPT !.investment_balance = @ + amount]
             a3 == account_add_history(a2, "Investment Deposit", -amount)
         IN  Done([m EXCEPT ![p] = a3])

(* void in the source: ok tells whether the yield was applied *)
service_apply_investment_yield(service, m, p) ==
    IF m[p].investment_balance <= 0 \/ service.investment_rate <= 0
    THEN Fail(m, "")
    ELSE LET yield == Mul(m[p].investment_balance, service.investment_rate)
             a1 == [m[p] EXCEPT !.investment_balance = @ + yield]
             a2 == account_add_history(a1, "Investment Yield", yield)
         IN  Done([m EXCEPT ![p] = a2])

(* the invested pool is not debited *)
service_withdraw_investment_no_debit(service, m, p, amount) ==
    IF amount <= 0 THEN Fail(m, "withdraw_not_positive")
    ELSE IF m[p].investment_balance < amount THEN Fail(m, "investment_insufficient")
    ELSE LET a2 == [m[p] EXCEPT !.balance = @ + amount]
             a3 == account_add_history(a2, "Investment Withdrawal", amount)
         IN  Done([m EXCEPT ![p] = a3])

service_withdraw_investment(service, m, p, amount) ==
    IF amount <= 0 THEN Fail(m, "withdraw_not_positive")
    ELSE IF m[p].investment_balance < amount THEN Fail(m, "investment_insufficient")
    ELSE LET a1 == [m[p] EXCEPT !.investment_balance = @ - amount]
             a2 == [a1 EXCEPT !.balance = @ + amount]
             a3 == account_add_history(a2, "Investment Withdrawal", amount)
         IN  Done([m EXCEPT ![p] = a3])

(* ---------------------------------------------------------------------- *)
(* Item storage                                                            *)
(* ---------------------------------------------------------------------- *)

(* index (from 1) of the first slot whose name compares equal, or SIZE_MAX *)
account_find_item(account, name) ==
    IF name = NullName THEN SIZE_MAX
    ELSE LET hits == {i \in 1..Len(account.items) : account.items[i].name = name}
         IN  IF hits = {} THEN SIZE_MAX
             ELSE CHOOSE i \in hits : \A j \in hits : i <= j

(* the check is missing *)
StoreQuantityOverLimit_missing(quantity) == FALSE

(* if (quantity > BANK_MAX_ITEM_QUANTITY), before the slot lookup *)
StoreQuantityOverLimit(quantity) == quantity > BANK_MAX_ITEM_QUANTITY

service_store_item(m, p, name, quantity) ==
    IF name = NullName \/ quantity = 0 THEN Fail(m, "invalid_store")
    ELSE IF StoreQuantityOverLimit(quantity) THEN Fail(m, "quantity_over_limit")
    ELSE LET found == account_find_item(m[p], name)
         IN  IF found = SIZE_MAX /\ Len(m[p].items) >= MAX_ITEMS
             THEN Fail(m, "vault_full")
             ELSE LET a1 == IF found = SIZE_MAX
                            THEN [m[p] EXCEPT !.items =
                                     Append(@, [name |-> StoredName(name),
                                                quantity |-> 0])]
                            ELSE m[p]
                      index == IF found = SIZE_MAX THEN Len(a1.items) ELSE found
                  IN  IF a1.items[index].quantity + quantity > BANK_MAX_ITEM_QUANTITY
                      THEN Fail([m EXCEPT ![p] = a1], "total_over_limit")
                      ELSE LET a2 == [a1 EXCEPT !.items[index].quantity = @ + quantity]
                               a3 == account_add_history(a2, "Item Stored", quantity * Scale)
                           IN  Done([m EXCEPT ![p] = a3])

(* items[i] = items[i + 1] for i = index .. item_count - 2; item_count-- *)
RemoveSlot(items, index) ==
    [i \in 1..(Len(items) - 1) |-> IF i < index THEN items[i] ELSE items[i + 1]]

service_retrieve_item(m, p, name, quantity) ==
    IF name = NullName \/ quantity = 0 THEN Fail(m, "invalid_retrieve")
    ELSE LET index == account_find_item(m[p], name)
         IN  IF index = SIZE_MAX THEN Fail(m, "item_not_found")
             ELSE IF m[p].items[index].quantity < quantity
             THEN Fail(m, "item_insufficient")
             ELSE LET a1 == [m[p] EXCEPT !.items[index].quantity = @ - quantity]
                      a2 == account_add_history(a1, "Item Retrieved", -(quantity * Scale))
                      a3 == IF a2.items[index].quantity = 0
                            THEN [a2 EXCEPT !.items = RemoveSlot(@, index)]
                            ELSE a2
                  IN  Done([m EXCEPT ![p] = a3])

(* every account is reset, not only the one passed *)
service_reset_daily_all(m, p) == [q \in DOMAIN m |-> [m[q] EXCEPT !.daily_total = 0]]

service_reset_daily(m, p) == [m EXCEPT ![p].daily_total = 0]

service_init(deposit_fee, withdrawal_fee, transfer_fee, investment_rate, daily_limit) ==
    [deposit_fee     |-> deposit_fee,
     withdrawal_fee  |-> withdrawal_fee,
     transfer_fee    |-> transfer_fee,
     investment_rate |-> investment_rate,
     daily_limit     |-> IF daily_limit <= 0 THEN BANK_MAX_DAILY_TOTAL ELSE daily_limit]

(* ---------------------------------------------------------------------- *)
(* The state machine: one action per call of a handler                     *)
(* ---------------------------------------------------------------------- *)

Accts == {1, 2}

(* budget is the number of calls that may still change an account; calls   *)
(* that change nothing are always possible.  setup.n is the number of      *)
(* calls the driver still makes to prepare account 1 (see StockItem and    *)
(* FillHistory) before it makes any other call.                            *)
Call(op, p, to, amount, name, quantity, r) ==
    /\ setup.n = 0
    /\ (r.mem # mem) => budget > 0
    /\ mem' = r.mem
    /\ budget' = IF r.mem # mem THEN budget - 1 ELSE budget
    /\ last' = [op |-> op, p |-> p, to |-> to, amount |-> amount, name |-> name,
                quantity |-> quantity, ok |-> r.ok, err |-> r.err, pre |-> mem]
    /\ UNCHANGED <<svc, setup>>

Deposit(p, amount) ==
    Call("deposit", p, p, amount, <<>>, 0, service_deposit(svc, mem, p, amount))

Withdraw(p, amount) ==
    Call("withdraw", p, p, amount, <<>>, 0, service_withdraw(svc, mem, p, amount))

Transfer(from, to, amount) ==
    Call("transfer", from, to, amount, <<>>, 0,
         service_transfer(svc, mem, from, to, amount))

Invest(p, amount) ==
    Call("invest", p, p, amount, <<>>, 0, service_invest(svc, mem, p, amount))

ApplyYield(p) ==
    Call("yield", p, p, 0, <<>>, 0, service_apply_investment_yield(svc, mem, p))

WithdrawInvestment(p, amount) ==
    Call("withdraw_investment", p, p, amount, <<>>, 0,
         service_withdraw_investment(svc, mem, p, amount))

StoreItem(p, name, quantity) ==
    Call("store_item", p, p, 0, name, quantity,
         service_store_item(mem, p, name, quantity))

RetrieveItem(p, name, quantity) ==
    Call("retrieve_item", p, p, 0, name, quantity,
         service_retrieve_item(mem, p, name, quantity))

ResetDaily(p) ==
    Call("reset_daily", p, p, 0, <<>>, 0, Done(service_reset_daily(mem, p)))

Prepare(op, amount, name, quantity, r) ==
    /\ setup.n > 0
    /\ mem' = r.mem
    /\ setup' = [setup EXCEPT !.n = @ - 1]
    /\ last' = [op |-> op, p |-> 1, to |-> 1, amount |-> amount, name |-> name,
                quantity |-> quantity, ok |-> r.ok, err |-> r.err, pre |-> mem]
    /\ UNCHANGED <<svc, budget>>

(* the driver stores setup.arg pieces of a name not used before *)
StockItem ==
    LET name == <<Len(mem[1].items) + 1>>
    IN  Prepare("store_item", 0, name, setup.arg,
                service_store_item(mem, 1, name, setup.arg))

(* the driver deposits setup.arg *)
FillHistory ==
    Prepare("deposit", setup.arg, <<>>, 0,
            service_deposit(svc, mem, 1, setup.arg))

NoSetup == [n |-> 0, arg |-> 0]

InitLast ==
    [op |-> "account_reset", p |-> 1, to |-> 1, amount |-> 0, name |-> <<>>,
     quantity |-> 0, ok |-> TRUE, err |-> "", pre |-> mem]

Service(c) ==
    [deposit_fee |-> c[1], withdrawal_fee |-> c[2], transfer_fee |-> c[3],
     investment_rate |-> c[4], daily_limit |-> c[5]]

(* ---------------------------------------------------------------------- *)
(* Spec: two accounts, every handler, currency-oriented arguments          *)
(* ---------------------------------------------------------------------- *)

MaxOps == 2

(* deposit_fee, withdrawal_fee, transfer_fee, investment_rate, daily_limit *)
FreeConfig == <<0, 0, 0, 1, 100 * Scale>>
FeeConfig == <<55 * Scale, 5 * Scale, 55, 0, 0>>
NegativeConfig == <<-10, -10, -10, -1, -10>>

(* a service set up by service_init, or a BankingService filled in directly *)
Services ==
    { service_init(c[1], c[2], c[3], c[4], c[5]) : c \in {FreeConfig, FeeConfig} }
    \cup { Service(NegativeConfig) }

InitialBalances == { -5 * Scale, 500 * Scale }

DepositAmounts == { -10, 6 * Scale, 40 * Scale, 60 * Scale, 10000 * Scale }
WithdrawAmounts == { 5 * Scale, 6 * Scale, 60 * Scale, 10000 * Scale + 1 }
TransferAmounts == { 5, 6 * Scale, 60 * Scale }
InvestAmounts == { -10, 5, 60 * Scale }
TransferPairs == { <<1, 2>>, <<2, 1>>, <<1, 1>> }

ItemRequests == { <<NullName, 1>>, <<<<1>>, 0>>, <<<<1>>, 1>> }

Init ==
    /\ svc \in Services
    /\ \E b \in InitialBalances :
          mem = [p \in Accts |-> account_reset(IF p = 1 THEN b ELSE 60 * Scale)]
    /\ last = InitLast
    /\ budget = MaxOps
    /\ setup = NoSetup

Next ==
    \/ \E amount \in DepositAmounts : Deposit(1, amount)
    \/ \E amount \in WithdrawAmounts : Withdraw(1, amount)
    \/ \E pair \in TransferPairs, amount \in TransferAmounts :
          Transfer(pair[1], pair[2], amount)
    \/ \E amount \in InvestAmounts : Invest(1, amount)
    \/ ApplyYield(1)
    \/ \E amount \in InvestAmounts \cup {mem[1].investment_balance} :
          WithdrawInvestment(1, amount)
    \/ \E req \in ItemRequests : StoreItem(1, req[1], req[2])
    \/ \E req \in ItemRequests : RetrieveItem(1, req[1], req[2])
    \/ \E p \in Accts : ResetDaily(p)

Spec == Init /\ [][Next]_vars

(* ---------------------------------------------------------------------- *)
(* SpecItems: the driver first stocks account 1 with items named <<1>>,    *)
(* <<2>>, ..., then stores and retrieves under short, empty, null and long *)
(* names                                                                   *)
(* ---------------------------------------------------------------------- *)

(* MAX_ITEM_NAME characters: one more than a slot's name can hold *)
LongName == [i \in 1..MAX_ITEM_NAME |-> IF i < MAX_ITEM_NAME THEN 97 ELSE 98]

(* the first MAX_ITEM_NAME - 1 characters of LongName *)
LongPrefix == [i \in 1..(MAX_ITEM_NAME - 1) |-> 97]

NewName == <<40>>

(* <<number of items stocked first, quantity of each>> *)
Stockings ==
    { <<0, 1>>, <<1, BANK_MAX_ITEM_QUANTITY>>, <<MAX_ITEMS - 1, 1>>,
      <<MAX_ITEMS, 1>>, <<MAX_ITEMS, BANK_MAX_ITEM_QUANTITY>> }

StoreRequests ==
    { <<NullName, 1>>, <<<<>>, 1>>,
      <<<<1>>, 0>>, <<<<1>>, 1>>, <<<<1>>, 999>>, <<<<1>>, 1000>>,
      <<NewName, 1>>, <<NewName, 999>>, <<NewName, 1000>>,
      <<LongName, 1>>, <<LongPrefix, 1>> }

RetrieveRequests ==
    { <<NullName, 1>>, <<<<>>, 1>>,
      <<<<1>>, 0>>, <<<<1>>, 1>>, <<<<1>>, 999>>,
      <<NewName, 1>>, <<NewName, 999>>,
      <<LongName, 1>>, <<LongPrefix, 1>> }

InitItems ==
    /\ svc = service_init(FreeConfig[1], FreeConfig[2], FreeConfig[3],
                          FreeConfig[4], FreeConfig[5])
    /\ mem = [p \in Accts |-> account_reset(500 * Scale)]
    /\ last = InitLast
    /\ budget = MaxOps
    /\ \E st \in Stockings : setup = [n |-> st[1], arg |-> st[2]]

NextItems ==
    \/ StockItem
    \/ \E req \in StoreRequests : StoreItem(1, req[1], req[2])
    \/ \E req \in RetrieveRequests : RetrieveItem(1, req[1], req[2])

SpecItems == InitItems /\ [][NextItems]_vars

(* ---------------------------------------------------------------------- *)
(* SpecHistory: the driver first makes deposits of 1.0 into account 1,     *)
(* then calls every handler                                                *)
(* ---------------------------------------------------------------------- *)

HistoryFills ==
    { 0, MAX_TRANSACTION_HISTORY - 1, MAX_TRANSACTION_HISTORY,
      MAX_TRANSACTION_HISTORY + 6 }

InitHistory ==
    /\ svc = service_init(FreeConfig[1], FreeConfig[2], FreeConfig[3],
                          FreeConfig[4], FreeConfig[5])
    /\ mem = [p \in Accts |-> account_reset(500 * Scale)]
    /\ last = InitLast
    /\ budget = MaxOps
    /\ \E n \in HistoryFills : setup = [n |-> n, arg |-> 1 * Scale]

NextHistory == FillHistory \/ Next

SpecHistory == InitHistory /\ [][NextHistory]_vars

(* ---------------------------------------------------------------------- *)
(* SpecInvest: one account, the three investment handlers, two calls more  *)
(* than in Spec                                                            *)
(* ---------------------------------------------------------------------- *)

InvestRates == { -1, 0, 1 }

PoolAmounts == { 0, 60 * Scale, 100 * Scale }

(* a + a * rate: what an investment of a is worth after one yield *)
Payouts == { a + Mul(a, svc.investment_rate) : a \in PoolAmounts }

InitInvest ==
    /\ \E rate \in InvestRates : svc = service_init(0, 0, 0, rate, 0)
    /\ mem = [p \in Accts |-> account_reset(500 * Scale)]
    /\ last = InitLast
    /\ budget = MaxOps + 2
    /\ setup = NoSetup

NextInvest ==
    \/ \E amount \in PoolAmounts : Invest(1, amount)
    \/ ApplyYield(1)
    \/ \E amount \in PoolAmounts \cup Payouts \cup {mem[1].investment_balance} :
          WithdrawInvestment(1, amount)

SpecInvest == InitInvest /\ [][NextInvest]_vars

(* ---------------------------------------------------------------------- *)
(* Properties of Spec                                                      *)
(* ---------------------------------------------------------------------- *)

(* C1: in every reachable state every account has balance >= 0 and        *)
(* investment_balance >= 0, whatever calls were made and whatever the     *)
(* fee and rate configuration.                                            *)
C1_BalancesNonNegative ==
    \A p \in Accts : mem[p].balance >= 0 /\ mem[p].investment_balance >= 0

(* a successful debit that empties a balance that was positive *)
C1_Witness ==
    /\ last.ok
    /\ last.op \in {"withdraw", "transfer", "invest"}
    /\ last.pre[last.p].balance > 0
    /\ mem[last.p].balance = 0

FallibleOps ==
    {"deposit", "withdraw", "transfer", "invest", "withdraw_investment",
     "retrieve_item"}

(* C2: when deposit, withdraw, transfer, invest, withdraw_investment or   *)
(* retrieve_item returns failure, every field of every account is as it   *)
(* was before the call.                                                   *)
C2_FailureChangesNothing ==
    (last.op \in FallibleOps /\ ~last.ok) => mem = last.pre

(* a transfer rejected by its last gate, after three gates passed *)
C2_Witness ==
    /\ last.op = "transfer"
    /\ ~last.ok
    /\ last.err = "transfer_too_small"
    /\ last.pre[last.p].balance >= last.amount

(* C5: a successful transfer between two distinct accounts debits the     *)
(* sender the full amount and credits the receiver the amount less the    *)
(* fee charged (the fee when it is > 0, nothing otherwise), so the sum of  *)
(* the two balances drops by exactly the fee charged.                     *)
C5_TransferConservation ==
    (last.op = "transfer" /\ last.ok /\ last.p # last.to) =>
        LET charged == IF svc.transfer_fee > 0 THEN svc.transfer_fee ELSE 0
            from0 == last.pre[last.p].balance
            to0   == last.pre[last.to].balance
        IN  /\ mem[last.p].balance = from0 - last.amount
            /\ mem[last.to].balance = to0 + last.amount - charged
            /\ mem[last.p].balance + mem[last.to].balance = from0 + to0 - charged

(* a successful transfer between distinct accounts with a positive fee *)
C5_Witness ==
    /\ last.op = "transfer"
    /\ last.ok
    /\ last.p # last.to
    /\ svc.transfer_fee > 0
    /\ mem[last.to].balance > last.pre[last.to].balance

C6_EffectiveLimit ==
    IF svc.daily_limit <= 0 THEN 25000 * Scale ELSE svc.daily_limit

(* C6: deposit, withdraw and transfer are rejected when the account's     *)
(* (sender's) daily_total plus the requested amount is strictly above the *)
(* effective limit; a request that stays at or below the limit is never   *)
(* rejected by the daily gate; a rejection leaves daily_total unchanged.  *)
C6_DailyLimitGate ==
    (last.op \in {"deposit", "withdraw", "transfer"}) =>
        LET projected == last.pre[last.p].daily_total + last.amount
        IN  /\ projected > C6_EffectiveLimit => ~last.ok
            /\ projected <= C6_EffectiveLimit => last.err # "daily_limit"
            /\ ~last.ok => mem[last.p].daily_total = last.pre[last.p].daily_total

(* limit 100: after a deposit of 60, a second deposit of 60 is rejected *)
C6_Witness ==
    /\ svc.daily_limit = 100 * Scale
    /\ last.op = "deposit"
    /\ last.amount = 60 * Scale
    /\ last.pre[1].daily_total = 60 * Scale
    /\ ~last.ok
    /\ last.err = "daily_limit"
    /\ mem[1].daily_total = 60 * Scale

(* the step is a withdraw of the amount just deposited, on the same account, *)
(* with both fees zero                                                      *)
C10_DepositThenWithdraw ==
    /\ svc.deposit_fee = 0
    /\ svc.withdrawal_fee = 0
    /\ last.op = "deposit"
    /\ last.ok
    /\ last'.op = "withdraw"
    /\ last'.p = last.p
    /\ last'.amount = last.amount

(* C10 as stated: with zero fees, a withdraw of a right after a successful *)
(* deposit of a returns balance to its value before the deposit.          *)
C10_Original ==
    [][C10_DepositThenWithdraw =>
          mem'[last.p].balance = last.pre[last.p].balance]_vars

(* C10 amended: the withdraw succeeds and restores the balance when the    *)
(* daily total before the deposit plus twice a is within the limit;        *)
(* otherwise it is rejected and the balance stays at prior + a.            *)
C10_RoundTrip ==
    [][C10_DepositThenWithdraw =>
          IF last.pre[last.p].daily_total + 2 * last.amount <= C6_EffectiveLimit
          THEN last'.ok /\ mem'[last.p].balance = last.pre[last.p].balance
          ELSE ~last'.ok /\ mem'[last.p].balance =
                               last.pre[last.p].balance + last.amount]_vars

(* a successful withdraw of the amount whose deposit is the newest entry *)
C10_Witness ==
    /\ svc.deposit_fee = 0
    /\ svc.withdrawal_fee = 0
    /\ last.op = "withdraw"
    /\ last.ok
    /\ Len(last.pre[1].history) > 0
    /\ LET e == last.pre[1].history[Len(last.pre[1].history)]
       IN  e.description = "Deposit" /\ e.amount = last.amount
    /\ Len(mem[1].history) = 2
    /\ mem[1].balance = mem[1].history[1].resulting_balance - last.amount

(* ---------------------------------------------------------------------- *)
(* Properties of SpecItems                                                 *)
(* ---------------------------------------------------------------------- *)

(* C3: a failed service_store_item (invalid request, quantity over 999,    *)
(* vault full, total over 999) leaves item_count, every stored name and    *)
(* quantity and the history as they were: no slot is leaked.               *)
C3_FailedStoreLeaksNothing ==
    (last.op = "store_item" /\ ~last.ok) =>
        /\ mem[last.p].items = last.pre[last.p].items
        /\ mem[last.p].history = last.pre[last.p].history
        /\ mem = last.pre

(* a 33rd distinct name is rejected and the 32 held items are as before *)
C3_Witness ==
    /\ last.op = "store_item"
    /\ ~last.ok
    /\ last.err = "vault_full"
    /\ Len(last.pre[1].items) = 32
    /\ mem[1].items = last.pre[1].items

(* C7 as stated: the inventory holds at most 32 slots, every quantity is   *)
(* between 1 and 999, and no two slots carry the same stored name.         *)
C7_Original ==
    \A p \in Accts :
        LET items == mem[p].items
        IN  /\ Len(items) <= 32
            /\ \A i \in 1..Len(items) :
                  items[i].quantity >= 1 /\ items[i].quantity <= 999
            /\ \A i, j \in 1..Len(items) :
                  i # j => items[i].name # items[j].name

(* the step retrieves, from the same account, the name and quantity just   *)
(* stored successfully under a name no slot carried                        *)
C8_StoreThenRetrieve ==
    /\ last.op = "store_item"
    /\ last.ok
    /\ \A i \in 1..Len(last.pre[last.p].items) :
          last.pre[last.p].items[i].name # last.name
    /\ last.quantity \in 1..999
    /\ last'.op = "retrieve_item"
    /\ last'.p = last.p
    /\ last'.name = last.name
    /\ last'.quantity = last.quantity

(* C8 as stated: storing a name that is not in the inventory and then      *)
(* retrieving the same name and quantity succeeds and leaves the inventory *)
(* as it was before the store.                                             *)
C8_Original ==
    [][C8_StoreThenRetrieve =>
          /\ last'.ok
          /\ mem'[last.p].items = last.pre[last.p].items]_vars

(* ---------------------------------------------------------------------- *)
(* Properties of SpecHistory                                               *)
(* ---------------------------------------------------------------------- *)

(* the number of entries the last call appended to the history of p *)
C4_Appended(p) ==
    IF ~last.ok \/ last.op \in {"account_reset", "reset_daily"} THEN 0
    ELSE (IF p = last.p THEN 1 ELSE 0)
         + (IF last.op = "transfer" /\ p = last.to THEN 1 ELSE 0)

(* C4: a history holds at most 64 entries in the order they were appended; *)
(* a call that appends k entries keeps the newest old entries in order in   *)
(* front of the new ones, so an append to a full history evicts exactly the *)
(* oldest entry.                                                           *)
C4_HistoryIsBoundedFifo ==
    \A p \in Accts :
        LET h0 == last.pre[p].history
            h1 == mem[p].history
            k  == C4_Appended(p)
            kept == Len(h1) - k
        IN  /\ Len(h1) <= 64
            /\ Len(h1) = Min(64, Len(h0) + k)
            /\ \A i \in 1..kept : h1[i] = h0[Len(h0) - kept + i]
            /\ (Len(h0) = 64 /\ k = 1) =>
                  /\ \A i \in 1..63 : h1[i] = h0[i + 1]
                  /\ h1[64].resulting_balance = mem[p].balance

(* entry 65 evicts entry 1 *)
C4_Witness ==
    /\ setup.n = 0
    /\ last.ok
    /\ Len(last.pre[1].history) = 64
    /\ C4_Appended(1) = 1
    /\ Len(mem[1].history) = 64
    /\ mem[1].history[1] = last.pre[1].history[2]
    /\ mem[1].history[1] # last.pre[1].history[1]
    /\ mem[1].history[64].description = "Investment Deposit"

(* ---------------------------------------------------------------------- *)
(* Properties of SpecInvest                                                *)
(* ---------------------------------------------------------------------- *)

(* a successful invest or withdraw_investment moves the amount from one    *)
(* pool to the other                                                       *)
C9_MovesBetweenPools ==
    (last.op \in {"invest", "withdraw_investment"} /\ last.ok) =>
        LET a0 == last.pre[last.p]
            a1 == mem[last.p]
            moved == IF last.op = "invest" THEN last.amount ELSE -last.amount
        IN  /\ a1.balance = a0.balance - moved
            /\ a1.investment_balance = a0.investment_balance + moved
            /\ a1.balance + a1.investment_balance
                 = a0.balance + a0.investment_balance

(* invest(a) directly followed by withdraw_investment(a) *)
C9_InvestThenWithdraw ==
    (/\ last.op = "invest"
     /\ last.ok
     /\ last'.op = "withdraw_investment"
     /\ last'.p = last.p
     /\ last'.amount = last.amount)
    => /\ last'.ok
       /\ mem'[last.p].balance = last.pre[last.p].balance
       /\ mem'[last.p].investment_balance = last.pre[last.p].investment_balance

(* invest(a), then a yield that was applied, directly followed by the      *)
(* withdrawal of a + a * rate; the invest is the newest history entry of   *)
(* the state the yield was applied to                                      *)
C9_InvestYieldWithdraw ==
    LET h == last.pre[last.p].history
        e == h[Len(h)]
        a == -e.amount
        original == e.resulting_balance + a
        gain == Mul(a, svc.investment_rate)
    IN  (/\ last.op = "yield"
         /\ last.ok
         /\ Len(h) > 0
         /\ e.description = "Investment Deposit"
         /\ last'.op = "withdraw_investment"
         /\ last'.p = last.p
         /\ last'.amount = a + gain)
        => /\ last'.ok
           /\ mem'[last.p].balance = original + gain
           /\ (last.pre[last.p].investment_balance = a
                  => mem'[last.p].investment_balance = 0)

(* C9: invest and withdraw_investment only move money between balance and  *)
(* investment_balance; invest(a) then withdraw_investment(a) restores both; *)
(* with a yield at rate r in between, withdrawing a + a * r returns balance *)
(* to its original value plus a * r.                                       *)
C9_InvestmentRoundTrip ==
    /\ []C9_MovesBetweenPools
    /\ [][C9_InvestThenWithdraw]_vars
    /\ [][C9_InvestYieldWithdraw]_vars

(* balance 500, invest 100, yield at 0.1, withdraw 110: balance 510, pool 0 *)
C9_Witness ==
    /\ svc.investment_rate = 1
    /\ last.op = "withdraw_investment"
    /\ last.ok
    /\ last.amount = 110 * Scale
    /\ Len(mem[1].history) = 3
    /\ mem[1].history[1].description = "Investment Deposit"
    /\ mem[1].history[1].amount = -(100 * Scale)
    /\ mem[1].history[2].description = "Investment Yield"
    /\ mem[1].balance = 510 * Scale
    /\ mem[1].investment_balance = 0

(* ---------------------------------------------------------------------- *)
(* Further properties of Spec                                              *)
(* ---------------------------------------------------------------------- *)

(* C11: with a fee > 0, deposit and withdraw reject the request and leave  *)
(* the account as it was whenever amount - fee < 1.0; every successful     *)
(* deposit credits at least 1.0 and every successful withdrawal debits at  *)
(* least 1.0; a post-fee amount of exactly 1.0 is not rejected for the fee. *)
C11_FeeFloor ==
    (last.op \in {"deposit", "withdraw"}) =>
        LET fee == IF last.op = "deposit" THEN svc.deposit_fee
                                          ELSE svc.withdrawal_fee
            post == last.amount - fee
            a0 == last.pre[last.p]
            a1 == mem[last.p]
        IN  /\ (fee > 0 /\ post < 1 * Scale) =>
                  /\ ~last.ok
                  /\ a1.balance = a0.balance
                  /\ a1.daily_total = a0.daily_total
                  /\ a1.history = a0.history
            /\ (last.ok /\ last.op = "deposit") =>
                  a1.balance - a0.balance >= 1 * Scale
            /\ (last.ok /\ last.op = "withdraw") =>
                  a0.balance - a1.balance >= 1 * Scale
            /\ (fee > 0 /\ post = 1 * Scale) =>
                  last.err \notin {"deposit_fee", "withdrawal_fee"}

(* withdrawal_fee 5, withdraw 5.0: rejected for the fee, balance unchanged *)
C11_Witness ==
    /\ svc.withdrawal_fee = 5 * Scale
    /\ last.op = "withdraw"
    /\ last.amount = 5 * Scale
    /\ ~last.ok
    /\ last.err = "withdrawal_fee"
    /\ mem[1].balance = last.pre[1].balance

(* ---------------------------------------------------------------------- *)
(* Further properties of SpecHistory                                       *)
(* ---------------------------------------------------------------------- *)

(* what the last call did to daily_total and, for a reset, to the rest *)
C12_DailyTotalFrame ==
    IF last.op = "reset_daily"
    THEN mem = [last.pre EXCEPT ![last.p].daily_total = 0]
    ELSE \A p \in Accts :
            LET added == IF /\ last.ok
                            /\ p = last.p
                            /\ last.op \in {"deposit", "withdraw", "transfer"}
                         THEN last.amount ELSE 0
            IN  /\ mem[p].daily_total = last.pre[p].daily_total + added
                /\ mem[p].daily_total >= last.pre[p].daily_total

(* the gates of op other than the daily limit pass for account a *)
C12_OtherGatesPass(op, a, amount) ==
    LET fee == IF op = "deposit" THEN svc.deposit_fee
               ELSE IF op = "withdraw" THEN svc.withdrawal_fee
               ELSE svc.transfer_fee
        post == IF fee > 0 THEN amount - fee ELSE amount
    IN  /\ amount >= 1 * Scale
        /\ amount <= 10000 * Scale
        /\ post >= 1 * Scale
        /\ op = "withdraw" => a.balance >= post
        /\ op = "transfer" => a.balance >= amount

(* the step repeats, right after reset_daily(p), a request on p that the   *)
(* daily limit alone rejected in the state before the reset                *)
C12_RetryAfterReset ==
    /\ last.op = "reset_daily"
    /\ last'.op \in {"deposit", "withdraw", "transfer"}
    /\ last'.p = last.p
    /\ C12_OtherGatesPass(last'.op, last.pre[last.p], last'.amount)
    /\ last.pre[last.p].daily_total + last'.amount > C6_EffectiveLimit

(* C12 as stated: daily_total changes only by the requested amount of a    *)
(* successful deposit, withdraw or outgoing transfer, and never decreases, *)
(* until reset_daily sets it to 0 and changes nothing else; after the      *)
(* reset a request the daily limit alone had rejected is accepted.         *)
C12_Original ==
    /\ []C12_DailyTotalFrame
    /\ [][C12_RetryAfterReset => last'.ok]_vars

(* C12 amended: after the reset such a request is accepted exactly when    *)
(* its amount alone does not exceed the limit.                             *)
C12_DailyTotal ==
    /\ []C12_DailyTotalFrame
    /\ [][C12_RetryAfterReset =>
             (last'.ok <=> last'.amount <= C6_EffectiveLimit)]_vars

(* 63 or more deposits of 1.0, limit 100: after a reset, deposit 40 passes *)
C12_Witness ==
    /\ last.op = "deposit"
    /\ last.ok
    /\ last.amount = 40 * Scale
    /\ last.pre[1].daily_total = 0
    /\ Len(last.pre[1].history) >= 63
    /\ mem[1].daily_total = 40 * Scale

(* ---------------------------------------------------------------------- *)
(* Gate order and frame of withdraw and transfer (Spec)                    *)
(* ---------------------------------------------------------------------- *)

(* the first gate, in the order of C13, that account a fails for the call *)
C13_FirstFailedGate(op, a, amount) ==
    LET fee == IF op = "withdraw" THEN svc.withdrawal_fee ELSE svc.transfer_fee
        small == fee > 0 /\ amount - fee < 1 * Scale
        post == IF fee > 0 THEN amount - fee ELSE amount
    IN  IF amount < 1 * Scale THEN "below_minimum"
        ELSE IF amount > 10000 * Scale THEN "above_maximum"
        ELSE IF a.daily_total + amount > C6_EffectiveLimit THEN "daily_limit"
        ELSE IF op = "withdraw"
             THEN (IF small THEN "withdrawal_fee"
                   ELSE IF a.balance < post THEN "insufficient_balance"
                   ELSE "")
             ELSE (IF a.balance < amount THEN "transfer_insufficient"
                   ELSE IF small THEN "transfer_too_small"
                   ELSE "")

(* C13: a withdraw or transfer that violates several gates reports the     *)
(* first one in the order range, daily limit, fee, balance (withdraw) or   *)
(* range, daily limit, balance against the full amount, too small after    *)
(* the fee (transfer); it succeeds when no gate is violated.               *)
C13_GateOrder ==
    (last.op \in {"withdraw", "transfer"}) =>
        LET gate == C13_FirstFailedGate(last.op, last.pre[last.p], last.amount)
        IN  /\ last.err = gate
            /\ last.ok <=> gate = ""

(* fee 5.5, balance 0: a transfer of 6.0 is short of funds and too small   *)
(* after the fee, and is reported as short of funds                        *)
C13_Witness ==
    /\ last.op = "transfer"
    /\ last.amount = 6 * Scale
    /\ svc.transfer_fee > 0
    /\ last.amount - svc.transfer_fee < 1 * Scale
    /\ last.pre[last.p].balance < last.amount
    /\ ~last.ok
    /\ last.err = "transfer_insufficient"

(* C14: a transfer between two accounts is gated and charged on the        *)
(* sender's daily total only: it succeeds exactly when the sender passes   *)
(* its gates, whatever the receiver's daily total, adds the full amount to *)
(* the sender's daily total and leaves the receiver's daily total,         *)
(* investment balance and items unchanged.                                 *)
C14_SenderCapOnly ==
    (last.op = "transfer" /\ last.p # last.to) =>
        LET from0 == last.pre[last.p]
            to0 == last.pre[last.to]
        IN  /\ last.ok <=> C13_FirstFailedGate("transfer", from0, last.amount) = ""
            /\ last.ok =>
                  /\ mem[last.p].daily_total = from0.daily_total + last.amount
                  /\ mem[last.to].daily_total = to0.daily_total
                  /\ mem[last.to].investment_balance = to0.investment_balance
                  /\ mem[last.to].items = to0.items

(* the receiver already holds 60 of a limit of 100 and receives 60 more *)
C14_Witness ==
    /\ last.op = "transfer"
    /\ last.p # last.to
    /\ last.ok
    /\ last.pre[last.to].daily_total > 0
    /\ last.pre[last.to].daily_total + last.amount > C6_EffectiveLimit
    /\ mem[last.to].daily_total = last.pre[last.to].daily_total

(* C15: with a withdrawal fee f > 0, an in-range withdraw of a within the  *)
(* daily limit and with a - f >= 1.0 succeeds exactly when balance >= a-f; *)
(* it then lowers balance by a - f, raises daily_total by a and appends    *)
(* one entry "Withdrawal" of amount -(a - f).                              *)
C15_WithdrawPostFee ==
    LET f == svc.withdrawal_fee
        a == last.amount
        a0 == last.pre[last.p]
        a1 == mem[last.p]
    IN  ( /\ last.op = "withdraw"
          /\ f > 0
          /\ a >= 1 * Scale
          /\ a <= 10000 * Scale
          /\ a0.daily_total + a <= C6_EffectiveLimit
          /\ a - f >= 1 * Scale ) =>
            /\ last.ok <=> a0.balance >= a - f
            /\ last.ok =>
                  /\ a1.balance = a0.balance - (a - f)
                  /\ a1.daily_total = a0.daily_total + a
                  /\ Len(a1.history) = Len(a0.history) + 1
                  /\ SubSeq(a1.history, 1, Len(a0.history)) = a0.history
                  /\ a1.history[Len(a1.history)].description = "Withdrawal"
                  /\ a1.history[Len(a1.history)].amount = -(a - f)

(* fee 5.0: a withdraw of 6.0 succeeds on a balance between 1.0 and 6.0 *)
C15_Witness ==
    /\ last.op = "withdraw"
    /\ last.ok
    /\ svc.withdrawal_fee > 0
    /\ last.pre[last.p].balance < last.amount
    /\ last.pre[last.p].balance >= last.amount - svc.withdrawal_fee
    /\ mem[last.p].balance = last.pre[last.p].balance - (last.amount - svc.withdrawal_fee)

(* ---------------------------------------------------------------------- *)
(* SpecUngated: investing beside the transaction gates                     *)
(* ---------------------------------------------------------------------- *)

(* daily limit 10000.0: one deposit of 10000.0 uses it up *)
UngatedLimit == 10000 * Scale

UngatedDeposits == { 5000 * Scale, 10000 * Scale }

(* not positive, below the minimum, in range, above the maximum, above the *)
(* balance                                                                 *)
UngatedAmounts == { -10, 0, 5, 60 * Scale, 10000 * Scale + 1, 50000 * Scale }

InitUngated ==
    /\ \E rate \in {0, 1} : svc = service_init(0, 0, 0, rate, UngatedLimit)
    /\ mem = [p \in Accts |-> account_reset(20000 * Scale)]
    /\ last = InitLast
    /\ budget = MaxOps
    /\ setup = NoSetup

NextUngated ==
    \/ \E amount \in UngatedDeposits : Deposit(1, amount)
    \/ \E amount \in UngatedAmounts : Invest(1, amount)
    \/ ApplyYield(1)
    \/ \E amount \in UngatedAmounts : WithdrawInvestment(1, amount)

SpecUngated == InitUngated /\ [][NextUngated]_vars

(* C16: service_invest succeeds exactly when amount > 0 and balance >=     *)
(* amount, whatever the transaction range and the daily total; invest,     *)
(* withdraw_investment and apply_investment_yield leave daily_total alone. *)
C16_InvestUngated ==
    /\ (last.op = "invest") =>
          (last.ok <=> (last.amount > 0 /\ last.pre[last.p].balance >= last.amount))
    /\ (last.op \in {"invest", "withdraw_investment", "yield"}) =>
          \A p \in Accts : mem[p].daily_total = last.pre[p].daily_total

(* an investment above 10000.0 made with the daily total at the limit *)
C16_Witness ==
    /\ last.op = "invest"
    /\ last.ok
    /\ last.amount > 10000 * Scale
    /\ last.pre[last.p].daily_total = C6_EffectiveLimit
    /\ mem[last.p].daily_total = C6_EffectiveLimit
    /\ mem[last.p].investment_balance = last.amount

(* ---------------------------------------------------------------------- *)
(* Empty item names (SpecItems)                                            *)
(* ---------------------------------------------------------------------- *)

(* C17 as stated: a store or retrieve with an empty name or a quantity of  *)
(* 0 fails as invalid input and leaves items and history as they were, and *)
(* no slot ever carries the empty name.                                    *)
C17_Original ==
    /\ ( /\ last.op \in {"store_item", "retrieve_item"}
         /\ (last.name = <<>> \/ last.quantity = 0) ) =>
            /\ ~last.ok
            /\ last.err \in {"invalid_store", "invalid_retrieve"}
            /\ mem[last.p].items = last.pre[last.p].items
            /\ mem[last.p].history = last.pre[last.p].history
    /\ \A p \in Accts : \A i \in 1..Len(mem[p].items) : mem[p].items[i].name # <<>>

(* ---------------------------------------------------------------------- *)
(* Invariants of the accounts and the self-transfer (Spec)                 *)
(* ---------------------------------------------------------------------- *)

(* C18: with the configuration fixed, every account's daily_total stays    *)
(* between 0 and the effective daily limit in every reachable state.       *)
C18_DailyTotalWithinLimit ==
    \A p \in Accts :
        /\ mem[p].daily_total >= 0
        /\ mem[p].daily_total <= C6_EffectiveLimit

(* deposits of 60 and 40 bring the daily total to the limit of 100 *)
C18_Witness ==
    /\ last.ok
    /\ last.op \in {"deposit", "withdraw", "transfer"}
    /\ last.pre[last.p].daily_total > 0
    /\ mem[last.p].daily_total = C6_EffectiveLimit

(* C19: the newest entry of a non-empty history records the account's      *)
(* current balance.                                                        *)
C19_NewestEntryIsBalance ==
    \A p \in Accts :
        Len(mem[p].history) > 0 =>
            mem[p].history[Len(mem[p].history)].resulting_balance = mem[p].balance

(* a transfer changed both balances and wrote an entry on both accounts *)
C19_Witness ==
    /\ last.op = "transfer"
    /\ last.ok
    /\ last.p # last.to
    /\ \A p \in Accts :
          /\ mem[p].balance # last.pre[p].balance
          /\ Len(mem[p].history) = Len(last.pre[p].history) + 1
          /\ mem[p].history[Len(mem[p].history)].resulting_balance = mem[p].balance

(* C20: a transfer from an account to itself succeeds exactly when the     *)
(* sender's gates pass; the balance then drops by the fee (by nothing when *)
(* the fee is <= 0), daily_total rises by the amount, and the entries      *)
(* "Transfer Sent" (-amount) and "Transfer Received" (+credited) are       *)
(* appended in that order with the same resulting balance.                 *)
C20_SelfTransfer ==
    (last.op = "transfer" /\ last.p = last.to) =>
        LET a0 == last.pre[last.p]
            a1 == mem[last.p]
            charged == IF svc.transfer_fee > 0 THEN svc.transfer_fee ELSE 0
            n == Len(a1.history)
        IN  /\ last.ok <=> C13_FirstFailedGate("transfer", a0, last.amount) = ""
            /\ last.ok =>
                  /\ a1.balance = a0.balance - charged
                  /\ a1.daily_total = a0.daily_total + last.amount
                  /\ n = Len(a0.history) + 2
                  /\ SubSeq(a1.history, 1, n - 2) = a0.history
                  /\ a1.history[n - 1] =
                        TransactionEntry("Transfer Sent", -last.amount, a1.balance)
                  /\ a1.history[n] =
                        TransactionEntry("Transfer Received",
                                         last.amount - charged, a1.balance)

(* fee 5.5: a self-transfer of 60.0 costs the account 5.5 *)
C20_Witness ==
    /\ last.op = "transfer"
    /\ last.p = last.to
    /\ last.ok
    /\ svc.transfer_fee > 0
    /\ last.amount = 60 * Scale
    /\ mem[last.p].balance = last.pre[last.p].balance - svc.transfer_fee
    /\ Len(mem[last.p].history) = Len(last.pre[last.p].history) + 2

====
